---- MODULE Spec2Model ----
(***************************************************************************)
(* Model of the chord model, the key estimator and the document transposer *)
(* of pychord.py.                                                          *)
(*                                                                         *)
(* Python strings are modelled as sequences of one-character strings, so   *)
(* the token "C#m" is <<"C", "#", "m">>.  A field that is None or the      *)
(* empty string in Python (the code only ever tests such fields for        *)
(* truthiness) is the empty sequence <<>>.                                 *)
(*                                                                         *)
(* Three state machines share the variables:                               *)
(*   SpecChord  one Chord object: construction, transpose, normalise,      *)
(*              chord()                                                    *)
(*   SpecScore  the key-scoring loop over one chord_count histogram        *)
(*   Spec       one transposition run of parse_file over a document        *)
(***************************************************************************)
EXTENDS Integers, Sequences, FiniteSets, TLC

VARIABLES
    \* ---- one Chord object (SpecChord); `chord` is also the Chord being
    \* ---- rewritten by pass 3 of parse_file (Spec)
    tok,              \* the text handed to Chord(...)
    chord,            \* the object's fields, or NoChord before construction
    cerr,             \* exception raised by the last call on the object
    orig,             \* the fields right after construction
    total,            \* sum of the shifts passed to transpose() so far
    ncalls,           \* number of transpose() calls so far
    reparsed,         \* Chord(chord.chord()), or NoChord
    \* ---- the key-scoring loop (SpecScore)
    chord_count,      \* the histogram being scored
    best,             \* [key, val] the loop produced, or NoBest
    \* ---- one run of parse_file(file, format, transpose) (Spec)
    text,             \* the lines read from the file
    transpose,        \* the requested target key
    pc,               \* position of the run
    paragraphs,       \* list of [chord_count, key, val]
    para_index,       \* 0-based, as in the code
    lineno,           \* 1-based index of the line the current pass is at
    shift,
    first_key,        \* {} for None, {k} for the integer k
    norm,             \* "b", "#", or "unbound" while the local is unassigned
    transposed_text,
    err,              \* exception that ended the run, "none" otherwise
    line,             \* the re.split list of the line being rewritten
    line_index,       \* 0-based index into `line`, as in the code
    remaining,        \* transpose()'s local `shift`, counted down by its loop
    calls             \* the shift values pass 3 has passed to transpose()

chordVars == <<tok, chord, cerr, orig, total, ncalls, reparsed>>
scoreVars == <<chord_count, best>>
docVars   == <<text, transpose, pc, paragraphs, para_index, lineno, shift,
               first_key, norm, transposed_text, err, line, line_index,
               remaining, calls>>
vars      == <<tok, chord, cerr, orig, total, ncalls, reparsed,
               chord_count, best,
               text, transpose, pc, paragraphs, para_index, lineno, shift,
               first_key, norm, transposed_text, err, line, line_index,
               remaining, calls>>

(***************************************************************************)
(* Bounds of the model                                                     *)
(***************************************************************************)
MaxTokLen == 4      \* longest token handed to Chord() in SpecChord
MaxShift  == 12     \* largest shift passed to one transpose() in SpecChord
MaxCalls  == 2      \* transpose() calls on one object in SpecChord
MaxChords == 3      \* chords counted into one histogram in SpecScore
MaxLines  == 3      \* lines of a document in Spec
MaxSpin   == 3      \* iterations modelled of a countdown that started below 0

\* Values of the variables a state machine does not use
NoBest   == [key |-> 0, val |-> 0, done |-> FALSE]
NoCount  == [k \in (0..11) \X {"", "m"} |-> 0]
IdleScore == /\ chord_count = NoCount /\ best = NoBest
IdleDoc   == /\ text = <<>> /\ transpose = <<>> /\ pc = "idle"
             /\ paragraphs = <<>> /\ para_index = 0 /\ lineno = 0
             /\ shift = 0 /\ first_key = {} /\ norm = "unbound"
             /\ transposed_text = <<>> /\ err = "none" /\ line = <<>>
             /\ line_index = 0 /\ remaining = 0 /\ calls = {}

(***************************************************************************)
(* Process-wide tables                                                     *)
(***************************************************************************)
chord_to_offset ==
    (<<"C">> :> 0)  @@ (<<"C", "#">> :> 1)  @@ (<<"D", "b">> :> 1) @@
    (<<"D">> :> 2)  @@ (<<"D", "#">> :> 3)  @@ (<<"E", "b">> :> 3) @@
    (<<"E">> :> 4)  @@ (<<"F">> :> 5)       @@ (<<"F", "#">> :> 6) @@
    (<<"G", "b">> :> 6) @@ (<<"G">> :> 7)   @@ (<<"G", "#">> :> 8) @@
    (<<"A", "b">> :> 8) @@ (<<"A">> :> 9)   @@ (<<"A", "#">> :> 10) @@
    (<<"B", "b">> :> 10) @@ (<<"B">> :> 11)

\* key_norm[k + 1] is the Python key_norm[k]
key_norm == <<"b", "#", "#", "b", "#", "b", "#", "#", "#", "#", "b", "#">>

\* The Python keys "%s" % i and "%sm" % i are the pairs <<i, "">> and <<i, "m">>
CountKeys == (0..11) \X {"", "m"}

\* A table whose weights are below zero: no chord raises a key's total
chord_multiplier_negative ==
    [k \in CountKeys |->
        CASE k = <<0, "">>  -> -2
          [] k = <<5, "">>  -> -1
          [] k = <<7, "">>  -> -1
          [] k = <<2, "m">> -> -1
          [] k = <<4, "m">> -> -1
          [] k = <<9, "m">> -> -2
          [] OTHER          -> 0]

\* chord_multiplier["%s" % i] and chord_multiplier["%sm" % i]
chord_multiplier ==
    [k \in CountKeys |->
        CASE k = <<0, "">>  -> 2
          [] k = <<5, "">>  -> 1
          [] k = <<7, "">>  -> 1
          [] k = <<2, "m">> -> 1
          [] k = <<4, "m">> -> 1
          [] k = <<9, "m">> -> 2
          [] OTHER          -> 0]

\* A table in which the step up from E skips a semitone
map_transpose_semitone_skip ==
    (<<"C", "#">> :> <<"D">>) @@ (<<"D", "#">> :> <<"E">>) @@
    (<<"F", "#">> :> <<"G">>) @@ (<<"G", "#">> :> <<"A">>) @@
    (<<"A", "#">> :> <<"B">>) @@ (<<"D", "b">> :> <<"D">>) @@
    (<<"E", "b">> :> <<"E">>) @@ (<<"G", "b">> :> <<"G">>) @@
    (<<"A", "b">> :> <<"A">>) @@ (<<"B", "b">> :> <<"B">>) @@
    (<<"C">> :> <<"C", "#">>) @@ (<<"D">> :> <<"D", "#">>) @@
    (<<"E">> :> <<"F", "#">>) @@ (<<"F">> :> <<"F", "#">>) @@
    (<<"G">> :> <<"G", "#">>) @@ (<<"A">> :> <<"A", "#">>) @@
    (<<"B">> :> <<"C">>)

map_transpose_semitone ==
    (<<"C", "#">> :> <<"D">>) @@ (<<"D", "#">> :> <<"E">>) @@
    (<<"F", "#">> :> <<"G">>) @@ (<<"G", "#">> :> <<"A">>) @@
    (<<"A", "#">> :> <<"B">>) @@ (<<"D", "b">> :> <<"D">>) @@
    (<<"E", "b">> :> <<"E">>) @@ (<<"G", "b">> :> <<"G">>) @@
    (<<"A", "b">> :> <<"A">>) @@ (<<"B", "b">> :> <<"B">>) @@
    (<<"C">> :> <<"C", "#">>) @@ (<<"D">> :> <<"D", "#">>) @@
    (<<"E">> :> <<"F">>)      @@ (<<"F">> :> <<"F", "#">>) @@
    (<<"G">> :> <<"G", "#">>) @@ (<<"A">> :> <<"A", "#">>) @@
    (<<"B">> :> <<"C">>)

map_accidental_flat ==
    (<<"C", "#">> :> <<"D", "b">>) @@ (<<"D", "#">> :> <<"E", "b">>) @@
    (<<"F", "#">> :> <<"G", "b">>) @@ (<<"G", "#">> :> <<"A", "b">>) @@
    (<<"A", "#">> :> <<"B", "b">>)

map_accidental_sharp ==
    (<<"D", "b">> :> <<"C", "#">>) @@ (<<"E", "b">> :> <<"D", "#">>) @@
    (<<"G", "b">> :> <<"F", "#">>) @@ (<<"A", "b">> :> <<"G", "#">>) @@
    (<<"B", "b">> :> <<"A", "#">>)

(***************************************************************************)
(* class Chord                                                             *)
(***************************************************************************)
\* [A-Ga-g] and [b#] of the regular expression in Chord.__init__
NoteLetters == {"A", "B", "C", "D", "E", "F", "G",
                "a", "b", "c", "d", "e", "f", "g"}
Accidentals == {"b", "#"}

\* str.upper / str.lower on the characters string.capitalize can meet here
Upper(c) ==
    CASE c = "a" -> "A" [] c = "b" -> "B" [] c = "c" -> "C" [] c = "d" -> "D"
      [] c = "e" -> "E" [] c = "f" -> "F" [] c = "g" -> "G" [] OTHER -> c
Lower(c) ==
    CASE c = "A" -> "a" [] c = "B" -> "b" [] c = "C" -> "c" [] c = "D" -> "d"
      [] c = "E" -> "e" [] c = "F" -> "f" [] c = "G" -> "g" [] OTHER -> c

\* string.capitalize: first character upper-cased, the rest lower-cased
capitalize(s) ==
    IF s = <<>> THEN <<>>
    ELSE <<Upper(s[1])>> \o [i \in 1..(Len(s) - 1) |-> Lower(s[i + 1])]

\* Length of the match of [A-Ga-g][b#]? at 1-based position p of t (0: no match)
NoteLen(t, p) ==
    IF p <= Len(t) /\ t[p] \in NoteLetters
    THEN IF p + 1 <= Len(t) /\ t[p + 1] \in Accidentals THEN 2 ELSE 1
    ELSE 0

\* Position of the first "/" of t at or after p, Len(t) + 1 when there is none:
\* where the greedy [^/]* stops
SlashPos(t, p) ==
    LET S == {i \in p..Len(t) : t[i] = "/"}
    IN  IF S = {} THEN Len(t) + 1 ELSE CHOOSE i \in S : \A j \in S : i <= j

\* re.sub("maj", "", s) of the part of s from position i on: leftmost
\* non-overlapping occurrences removed, in one pass
RECURSIVE SubMajFrom(_, _)
SubMajFrom(s, i) ==
    IF i > Len(s) THEN <<>>
    ELSE IF i + 2 <= Len(s) /\ s[i] = "m" /\ s[i + 1] = "a" /\ s[i + 2] = "j"
         THEN SubMajFrom(s, i + 3)
         ELSE <<s[i]>> \o SubMajFrom(s, i + 1)
SubMaj(s) == SubMajFrom(s, 1)

NoChord == [ok |-> FALSE, opening_brace |-> <<>>, root |-> <<>>, triad |-> <<>>,
            bass |-> <<>>, bassrest |-> <<>>, minor |-> FALSE]

\* Chord.__init__.  The token holds no newline, so every group after the root is
\* optional or matches anything and the greedy first attempt is the match:
\*   ^([(])?([A-Ga-g][b#]?)([^/]*)[/]?([A-Ga-g][b#]?)?(.*)$
\* ok = FALSE stands for the raise of ChordError.  ps, where group 3 stops, is
\* bound as a value.
ChordInit(t) ==
    LET p0 == IF Len(t) >= 1 /\ t[1] = "(" THEN 1 ELSE 0
        n2 == NoteLen(t, p0 + 1)
        p2 == p0 + n2                        \* last position of group 2
    IN  IF n2 = 0 THEN NoChord
        ELSE CHOOSE c \in
                { LET g3 == SubSeq(t, p2 + 1, ps - 1)
                      p3 == IF ps <= Len(t) THEN ps ELSE ps - 1  \* after the "/"
                      n4 == NoteLen(t, p3 + 1)
                      tm == SubMaj(g3)
                  IN  [ok            |-> TRUE,
                       opening_brace |-> SubSeq(t, 1, p0),
                       root          |-> capitalize(SubSeq(t, p0 + 1, p2)),
                       triad         |-> g3,
                       bass          |-> capitalize(SubSeq(t, p3 + 1, p3 + n4)),
                       bassrest      |-> SubSeq(t, p3 + n4 + 1, Len(t)),
                       minor         |-> (g3 # <<>> /\ tm # <<>> /\ tm[1] = "m")] :
                  ps \in {SlashPos(t, p2 + 1)} }
                : TRUE

\* Chord.chord()
ChordText(c) ==
    LET ch0 == IF c.opening_brace # <<>> THEN <<"(">> \o c.root ELSE c.root
        ch1 == IF c.triad # <<>> THEN ch0 \o c.triad ELSE ch0
        ch2 == IF c.bass # <<>> THEN ch1 \o <<"/">> \o c.bass ELSE ch1
    IN  IF c.bassrest # <<>> THEN ch2 \o c.bassrest ELSE ch2

\* One iteration of the loop of Chord.transpose: [c, raised]; raised stands for
\* the KeyError of a failed table lookup (the root is already stepped when the
\* lookup of the bass fails)
TransposeOnce(c) ==
    IF c.root \notin DOMAIN map_transpose_semitone
    THEN [c |-> c, raised |-> TRUE]
    ELSE LET c1 == [c EXCEPT !.root = map_transpose_semitone[c.root]]
         IN  IF c.bass = <<>> THEN [c |-> c1, raised |-> FALSE]
             ELSE IF c.bass \notin DOMAIN map_transpose_semitone
                  THEN [c |-> c1, raised |-> TRUE]
                  ELSE [c |-> [c1 EXCEPT !.bass = map_transpose_semitone[c.bass]],
                        raised |-> FALSE]

\* Chord.transpose(shift) for shift >= 0: the loop run to its end or to the
\* first KeyError
RECURSIVE Transpose(_, _)
Transpose(c, n) ==
    IF n = 0 THEN [c |-> c, raised |-> FALSE]
    ELSE LET r == TransposeOnce(c)
         IN  IF r.raised THEN r ELSE Transpose(r.c, n - 1)

\* Chord.normalise(accidental)
Normalise(c, accidental) ==
    LET map == IF accidental = "b" THEN map_accidental_flat
               ELSE map_accidental_sharp
        c1  == IF c.root \in DOMAIN map THEN [c EXCEPT !.root = map[c.root]] ELSE c
    IN  IF c.bass # <<>> /\ c.bass \in DOMAIN map
        THEN [c1 EXCEPT !.bass = map[c.bass]]
        ELSE c1

(***************************************************************************)
(* SpecChord: the life of one Chord object                                 *)
(***************************************************************************)
\* Characters of the tokens tried: "(" , two note letters (one of them the
\* lower-case b, which is also an accidental), the accidentals, "/", and a
\* character that is none of these
TokChars == {"(", "E", "b", "#", "/", "9"}
Tokens   == UNION {[1..n -> TokChars] : n \in 0..MaxTokLen}

InitChord ==
    /\ tok \in Tokens
    /\ chord = NoChord /\ orig = NoChord /\ reparsed = NoChord
    /\ cerr = "none" /\ total = 0 /\ ncalls = 0
    /\ IdleScore /\ IdleDoc

\* c = Chord(tok)
Construct ==
    /\ pc = "idle" /\ chord = NoChord /\ cerr = "none"
    /\ LET c == ChordInit(tok)
       IN  /\ chord' = c
           /\ orig' = c
           /\ cerr' = IF c.ok THEN "none" ELSE "ChordError"
    /\ UNCHANGED <<tok, total, ncalls, reparsed, scoreVars, docVars>>

\* c.transpose(s), s >= 0
CallTranspose(s) ==
    /\ pc = "idle" /\ chord.ok /\ cerr = "none" /\ reparsed = NoChord
    /\ ncalls < MaxCalls
    /\ LET r == Transpose(chord, s)
       IN  /\ chord' = r.c
           /\ cerr' = IF r.raised THEN "KeyError" ELSE "none"
    /\ total' = total + s
    /\ ncalls' = ncalls + 1
    /\ UNCHANGED <<tok, orig, reparsed, scoreVars, docVars>>

\* c.normalise(accidental)
CallNormalise(accidental) ==
    /\ pc = "idle" /\ chord.ok /\ cerr = "none" /\ reparsed = NoChord
    /\ chord' = Normalise(chord, accidental)
    /\ UNCHANGED <<tok, cerr, orig, total, ncalls, reparsed, scoreVars, docVars>>

\* Chord(c.chord()) on the freshly constructed object
Reparse ==
    /\ pc = "idle" /\ chord.ok /\ cerr = "none" /\ reparsed = NoChord
    /\ ncalls = 0 /\ chord = orig
    /\ LET c == ChordInit(ChordText(chord))
       IN  /\ reparsed' = c
           /\ cerr' = IF c.ok THEN "none" ELSE "ChordError"
    /\ UNCHANGED <<tok, chord, orig, total, ncalls, scoreVars, docVars>>

NextChord ==
    \/ Construct
    \/ \E s \in 0..MaxShift : CallTranspose(s)
    \/ \E accidental \in {"b", "#"} : CallNormalise(accidental)
    \/ Reparse

SpecChord == InitChord /\ [][NextChord]_vars

InTable(name) == name \in DOMAIN chord_to_offset

\* C4: in every state of a Chord object its root is a key of chord_to_offset,
\* and so is its bass when it has one.
C4_RootBassInTable ==
    chord.ok => /\ InTable(chord.root)
                /\ (chord.bass # <<>> => InTable(chord.bass))

\* C3: Chord(Chord(t).chord()) is constructed without error and has the root,
\* triad, bass and bassrest of Chord(t).
C3_RoundTrip ==
    /\ (cerr = "ChordError" => ~orig.ok)
    /\ (reparsed.ok => /\ reparsed.root = orig.root
                       /\ reparsed.triad = orig.triad
                       /\ reparsed.bass = orig.bass
                       /\ reparsed.bassrest = orig.bassrest)

\* Pitch classes of the root and the bass (-1: no bass)
Offsets(c) ==
    <<chord_to_offset[c.root],
      IF c.bass = <<>> THEN -1 ELSE chord_to_offset[c.bass]>>

\* C5: when the root and the bass of the constructed chord are in the table,
\* the transpose calls made so far (a, then b, ...) raise nothing and leave the
\* root and the bass on the pitch classes one transpose((a + b + ...) mod 12)
\* of the constructed chord gives; for a sum that is a multiple of 12 these
\* are the pitch classes of the constructed chord.
C5_TransposeGroup ==
    (orig.ok /\ InTable(orig.root) /\ (orig.bass # <<>> => InTable(orig.bass)))
    => /\ cerr = "none"
       /\ InTable(chord.root)
       /\ (chord.bass # <<>>) = (orig.bass # <<>>)
       /\ (chord.bass # <<>> => InTable(chord.bass))
       /\ Offsets(chord) = Offsets(Transpose(orig, total % 12).c)
       /\ (total % 12 = 0 => Offsets(chord) = Offsets(orig))

C5_Witness ==
    /\ orig.ok /\ InTable(orig.root) /\ orig.bass # <<>> /\ InTable(orig.bass)
    /\ ncalls = 2 /\ total > 12 /\ total % 12 # 0
    /\ chord.root # orig.root

(***************************************************************************)
(* The key-scoring loop of parse_file                                      *)
(***************************************************************************)
\* The comparison against the running best, made the other way round
Better_orEqual(value, bestvalue) == value >= bestvalue

\* `if value > bestvalue`
Better(value, bestvalue) == value > bestvalue

\* `for i in range(12)` from i on, for one candidate key: value is the partial
\* sum so far, b the running [key, val]; v is the partial sum after the two
\* additions of this iteration, bound as a value
RECURSIVE InnerLoop(_, _, _, _, _)
InnerLoop(cc, key, i, value, b) ==
    IF i = 12 THEN b
    ELSE CHOOSE r \in
            { IF Better(v, b.val)
              THEN InnerLoop(cc, key, i + 1, v, [key |-> key, val |-> v])
              ELSE InnerLoop(cc, key, i + 1, v, b) :
              v \in { value
                      + chord_multiplier[<<(i - key) % 12, "">>] * cc[<<i, "">>]
                      + chord_multiplier[<<(i - key) % 12, "m">>] * cc[<<i, "m">>] } }
            : TRUE

\* `for key in range(12)` from key on.  The running best after one key is
\* bound as a value (nb) before the next key is tried
RECURSIVE KeyLoop(_, _, _)
KeyLoop(cc, key, b) ==
    IF key = 12 THEN b
    ELSE CHOOSE r \in {KeyLoop(cc, key + 1, nb) :
                          nb \in {InnerLoop(cc, key, 0, 0, b)}} : TRUE

\* bestkey and bestvalue for one paragraph's chord_count
EstimateKey(cc) == KeyLoop(cc, 0, [key |-> 0, val |-> 0])

(***************************************************************************)
(* SpecScore: histograms of up to MaxChords chords, scored                 *)
(***************************************************************************)
RECURSIVE SumCounts(_, _)
SumCounts(cc, i) ==
    IF i = 12 THEN 0 ELSE cc[<<i, "">>] + cc[<<i, "m">>] + SumCounts(cc, i + 1)

InitScore ==
    /\ chord_count = NoCount /\ best = NoBest
    /\ tok = <<>> /\ chord = NoChord /\ orig = NoChord /\ reparsed = NoChord
    /\ cerr = "none" /\ total = 0 /\ ncalls = 0
    /\ text = <<>> /\ transpose = <<>> /\ pc = "score"
    /\ paragraphs = <<>> /\ para_index = 0 /\ lineno = 0
    /\ shift = 0 /\ first_key = {} /\ norm = "unbound"
    /\ transposed_text = <<>> /\ err = "none" /\ line = <<>>
    /\ line_index = 0 /\ remaining = 0 /\ calls = {}

\* chord_count["%s%s" % (offset, minor)] += 1
CountOne(k) ==
    /\ pc = "score" /\ ~best.done
    /\ SumCounts(chord_count, 0) < MaxChords
    /\ chord_count' = [chord_count EXCEPT ![k] = @ + 1]
    /\ UNCHANGED <<best, chordVars, docVars>>

\* the scoring loop, run on the histogram
ScoreHistogram ==
    /\ pc = "score" /\ ~best.done
    /\ LET b == EstimateKey(chord_count)
       IN  best' = [key |-> b.key, val |-> b.val, done |-> TRUE]
    /\ UNCHANGED <<chord_count, chordVars, docVars>>

NextScore ==
    \/ \E k \in CountKeys : CountOne(k)
    \/ ScoreHistogram

SpecScore == InitScore /\ [][NextScore]_vars

\* total(k) of the claim: the whole sum for candidate key k
RECURSIVE KeyTotalFrom(_, _, _)
KeyTotalFrom(cc, k, i) ==
    IF i = 12 THEN 0
    ELSE chord_multiplier[<<(i - k) % 12, "">>] * cc[<<i, "">>]
         + chord_multiplier[<<(i - k) % 12, "m">>] * cc[<<i, "m">>]
         + KeyTotalFrom(cc, k, i + 1)
KeyTotal(cc, k) == KeyTotalFrom(cc, k, 0)

\* C2: the loop returns the maximum of total(k) over k in 0..11 as bestvalue
\* and the lowest k that reaches it as bestkey; for the all-zero histogram
\* it returns 0 and 0.
C2_BestIsLowestMaximum ==
    best.done =>
        /\ \A k \in 0..11 : KeyTotal(chord_count, k) <= best.val
        /\ best.key \in 0..11
        /\ KeyTotal(chord_count, best.key) = best.val
        /\ \A k \in 0..11 : k < best.key => KeyTotal(chord_count, k) < best.val
        /\ (chord_count = NoCount => best.key = 0 /\ best.val = 0)

\* a scored histogram in which two keys tie for the maximum, the lower one not 0
C2_Witness ==
    /\ best.done /\ best.val > 0 /\ best.key > 0
    /\ \E k \in 0..11 : k > best.key /\ KeyTotal(chord_count, k) = best.val

(***************************************************************************)
(* parse_file(file, format, transpose) with a transpose request            *)
(***************************************************************************)
\* Characters \s matches
Whitespace == {" ", "\t", "\n", "\r"}

\* re.match("^\s*$", line)
IsBlank(l) == \A i \in 1..Len(l) : l[i] \in Whitespace

\* Position of the first c of l at or after p, 0 when there is none
Find(l, c, p) ==
    LET S == {i \in p..Len(l) : l[i] = c}
    IN  IF S = {} THEN 0 ELSE CHOOSE i \in S : \A j \in S : i <= j

\* Where the leftmost match of \[([^\]]*)\] at or after p ends: the first "]"
\* after the first "["; 0 when nothing matches
MatchEnd(l, p) ==
    IF Find(l, "[", p) = 0 THEN 0 ELSE Find(l, "]", Find(l, "[", p) + 1)

\* re.split("\[([^\]]*)\]", l) of the part of l from p on; the list is
\* [text, chord, text, chord, ..., text].  r is the end of the leftmost match,
\* bound as a value
RECURSIVE SplitFrom(_, _)
SplitFrom(l, p) ==
    CHOOSE list \in
        { IF r = 0 THEN <<SubSeq(l, p, Len(l))>>
          ELSE <<SubSeq(l, p, Find(l, "[", p) - 1),
                 SubSeq(l, Find(l, "[", p) + 1, r - 1)>> \o SplitFrom(l, r + 1) :
          r \in {MatchEnd(l, p)} }
        : TRUE
Split(l) == SplitFrom(l, 1)

\* list[1::2]
OddSlice(list) == [j \in 1..(Len(list) \div 2) |-> list[2 * j]]

\* the fresh chord_count of a paragraph
NewParagraph == [chord_count |-> NoCount]

\* `for chord in chords:` of the counting pass, from the j-th chord on:
\* [cc, err], err the exception that ended the loop; c is Chord(chord), bound
\* as a value
RECURSIVE CountChords(_, _, _)
CountChords(chords, j, cc) ==
    IF j > Len(chords) THEN [cc |-> cc, err |-> "none"]
    ELSE CHOOSE r \in
            { IF ~c.ok THEN [cc |-> cc, err |-> "ChordError"]
              ELSE IF c.root \notin DOMAIN chord_to_offset
                   THEN [cc |-> cc, err |-> "KeyError"]
                   ELSE LET k == <<chord_to_offset[c.root],
                                   IF c.minor THEN "m" ELSE "">>
                        IN  CountChords(chords, j + 1, [cc EXCEPT ![k] = @ + 1]) :
              c \in {ChordInit(chords[j])} }
            : TRUE

\* The loop of the shift calculation leaves at the last paragraph that has a
\* score instead of the first
BreakAt_last(paras) ==
    IF \E i \in 1..Len(paras) : paras[i].val > 0
    THEN CHOOSE i \in 1..Len(paras) :
            /\ paras[i].val > 0
            /\ \A j \in 1..Len(paras) : paras[j].val > 0 => j <= i
    ELSE 0

\* Index of the paragraph at which `for p in paragraphs` breaks: the first one
\* with p["val"] > 0; 0 when the loop runs to its end
BreakAt(paras) ==
    IF \E i \in 1..Len(paras) : paras[i].val > 0
    THEN CHOOSE i \in 1..Len(paras) :
            /\ paras[i].val > 0
            /\ \A j \in 1..(i - 1) : paras[j].val = 0
    ELSE 0

\* first_key after the loop: the key of the first paragraph, among those the
\* loop visits, whose key is truthy; {} (None) when there is none
FirstKeyOf(paras) ==
    LET last == IF BreakAt(paras) = 0 THEN Len(paras) ELSE BreakAt(paras)
        nz   == {i \in 1..last : paras[i].key # 0}
    IN  IF nz = {} THEN {}
        ELSE {paras[CHOOSE i \in nz : \A j \in nz : i <= j].key}

\* `transpose in key_norm`: a string in a list of strings
InKeyNorm(s) == \E i \in 1..Len(key_norm) : s = <<key_norm[i]>>

\* `first_key in key_norm`: first_key is an integer and key_norm a list of
\* strings, and an integer equals no string
IntInKeyNorm(k) == FALSE

\* "[%s]" % s without the brackets
Bracketed_bare(s) == s

\* "[%s]" % s
Bracketed(s) == <<"[">> \o s \o <<"]">>

\* `for l in line: newline += l`
RECURSIVE Join(_)
Join(list) == IF list = <<>> THEN <<>> ELSE Head(list) \o Join(Tail(list))

(***************************************************************************)
(* Spec: one transposition run over a document                             *)
(***************************************************************************)
Lines ==
    { <<"x", "]", "[", "G", "]", "y", "[", "\n">>,
      <<" ", "\n">>,
      <<"[", "F", "]", "[", "a", "b", "]", "\n">>,
      <<"[", "a", "m", "]", "[", "C", "m", "a", "j", "]", "\n">>,
      <<"[", "E", "#", "]", "\n">>,
      <<"a", "[", "]", "\n">>,
      <<"[", "C", "/", "E", "#", "]", "\n">> }

Documents == UNION {[1..n -> Lines] : n \in 0..MaxLines}

\* Target keys tried: two keys of the table, a name that is not in it, and a
\* name that is an element of key_norm
Targets == { <<"D">>, <<"B", "b">>, <<"H">>, <<"#">> }

Init ==
    /\ text \in Documents
    /\ transpose \in Targets
    /\ pc = "count"
    /\ paragraphs = <<NewParagraph>>
    /\ para_index = 0
    /\ lineno = 1
    /\ shift = -1 /\ first_key = {} /\ norm = "unbound"
    /\ transposed_text = <<>> /\ err = "none"
    /\ line = <<>> /\ line_index = 0 /\ remaining = 0 /\ calls = {}
    /\ tok = <<>> /\ chord = NoChord /\ orig = NoChord /\ reparsed = NoChord
    /\ cerr = "none" /\ total = 0 /\ ncalls = 0
    /\ IdleScore

\* Counting pass, one line: a blank line opens a paragraph, then every chord of
\* the line is parsed and counted into the current paragraph
CountLine ==
    /\ pc = "count" /\ lineno <= Len(text)
    /\ LET l     == text[lineno]
           paras == IF IsBlank(l) THEN Append(paragraphs, NewParagraph)
                    ELSE paragraphs
           pi    == IF IsBlank(l) THEN para_index + 1 ELSE para_index
       IN  \E chords \in {OddSlice(Split(l))} :
           \E r \in {CountChords(chords, 1, paras[pi + 1].chord_count)} :
              /\ para_index' = pi
              /\ paragraphs' = [paras EXCEPT ![pi + 1].chord_count = r.cc]
              /\ err' = r.err
              /\ pc' = IF r.err = "none" THEN "count" ELSE "error"
              /\ lineno' = IF r.err = "none" THEN lineno + 1 ELSE lineno
    /\ UNCHANGED <<text, transpose, shift, first_key, norm, transposed_text,
                   line, line_index, remaining, calls, chordVars, scoreVars>>

\* `for p in paragraphs:` p["key"] = bestkey, p["val"] = bestvalue
EstimateKeys ==
    /\ pc = "count" /\ lineno > Len(text)
    /\ paragraphs' =
          [i \in 1..Len(paragraphs) |->
              [paragraphs[i] EXCEPT !.chord_count = @]
              @@ EstimateKey(paragraphs[i].chord_count)]
    /\ pc' = "shift"
    /\ UNCHANGED <<text, transpose, para_index, lineno, shift, first_key, norm,
                   transposed_text, err, line, line_index, remaining, calls,
                   chordVars, scoreVars>>

\* shift, first_key and norm from the paragraphs and the requested key
CalculateShift ==
    /\ pc = "shift"
    /\ LET b == BreakAt(paragraphs)
       IN  /\ first_key' = FirstKeyOf(paragraphs)
           /\ IF b # 0 /\ transpose \notin DOMAIN chord_to_offset
              THEN /\ err' = "KeyError" /\ pc' = "error"
                   /\ UNCHANGED <<shift, norm>>
              ELSE /\ shift' = IF b = 0 THEN -1
                               ELSE (chord_to_offset[transpose]
                                     - paragraphs[b].key) % 12
                   /\ IF InKeyNorm(transpose)
                      THEN /\ err' = "TypeError" /\ pc' = "error"
                           /\ UNCHANGED norm
                      ELSE /\ norm' = IF transpose \in DOMAIN chord_to_offset
                                      THEN key_norm[chord_to_offset[transpose] + 1]
                                      ELSE norm
                           /\ err' = "none" /\ pc' = "rewrite"
    /\ para_index' = 0
    /\ lineno' = 1
    /\ UNCHANGED <<text, transpose, paragraphs, transposed_text, line,
                   line_index, remaining, calls, chordVars, scoreVars>>

\* Rewrite pass, start of one line: the key-change test, the paragraph step on a
\* blank line, the split of the line
RewriteLine ==
    /\ pc = "rewrite" /\ lineno <= Len(text)
    /\ LET l    == text[lineno]
           pkey == paragraphs[para_index + 1].key
       IN  /\ IF pkey # 0 /\ first_key # {pkey}
              THEN /\ first_key' = {pkey}
                   /\ norm' = IF IntInKeyNorm(pkey) THEN key_norm[pkey + 1] ELSE norm
              ELSE UNCHANGED <<first_key, norm>>
           /\ para_index' = IF IsBlank(l) THEN para_index + 1 ELSE para_index
           /\ line' = Split(l)
    /\ line_index' = 1
    /\ pc' = "chords"
    /\ UNCHANGED <<text, transpose, paragraphs, lineno, shift, transposed_text,
                   err, remaining, calls, chordVars, scoreVars>>

\* `for chord in line[1::2]`: the next chord; a non-empty one is parsed and
\* transpose(shift) is entered, an empty one is stepped over
NextChordOfLine ==
    /\ pc = "chords" /\ line_index < Len(line)
    /\ LET t == line[line_index + 1]
       IN  IF t # <<>>
           THEN LET c == ChordInit(t)
                IN  IF c.ok
                    THEN /\ chord' = c
                         /\ remaining' = shift
                         /\ calls' = calls \cup {shift}
                         /\ pc' = "transpose"
                         /\ UNCHANGED <<err, line_index>>
                    ELSE /\ err' = "ChordError" /\ pc' = "error"
                         /\ UNCHANGED <<chord, remaining, calls, line_index>>
           ELSE /\ line_index' = line_index + 2
                /\ UNCHANGED <<chord, remaining, calls, err, pc>>
    /\ UNCHANGED <<text, transpose, paragraphs, para_index, lineno, shift,
                   first_key, norm, transposed_text, line,
                   tok, cerr, orig, total, ncalls, reparsed, scoreVars>>

\* One iteration of `while shift:` in Chord.transpose.  A countdown that is
\* below zero never reaches zero; MaxSpin of its iterations are modelled
TransposeStep ==
    /\ pc = "transpose" /\ remaining # 0 /\ remaining > -MaxSpin - 1
    /\ LET r == TransposeOnce(chord)
       IN  /\ chord' = r.c
           /\ IF r.raised
              THEN /\ err' = "KeyError" /\ pc' = "error"
                   /\ UNCHANGED remaining
              ELSE /\ remaining' = remaining - 1
                   /\ UNCHANGED <<err, pc>>
    /\ UNCHANGED <<text, transpose, paragraphs, para_index, lineno, shift,
                   first_key, norm, transposed_text, line, line_index, calls,
                   tok, cerr, orig, total, ncalls, reparsed, scoreVars>>

\* transpose() returns: normalise(norm), and the chord goes back into the line
TransposeReturn ==
    /\ pc = "transpose" /\ remaining = 0
    /\ IF norm = "unbound"
       THEN /\ err' = "UnboundLocalError" /\ pc' = "error"
            /\ UNCHANGED <<chord, line, line_index>>
       ELSE /\ chord' = Normalise(chord, norm)
            /\ line' = [line EXCEPT ![line_index + 1] = Bracketed(ChordText(chord'))]
            /\ line_index' = line_index + 2
            /\ pc' = "chords"
            /\ UNCHANGED err
    /\ UNCHANGED <<text, transpose, paragraphs, para_index, lineno, shift,
                   first_key, norm, transposed_text, remaining, calls,
                   tok, cerr, orig, total, ncalls, reparsed, scoreVars>>

\* End of one line of the rewrite pass: transposed_text.append(newline)
AppendLine ==
    /\ pc = "chords" /\ line_index >= Len(line)
    /\ transposed_text' = Append(transposed_text, Join(line))
    /\ lineno' = lineno + 1
    /\ pc' = "rewrite"
    /\ UNCHANGED <<text, transpose, paragraphs, para_index, shift, first_key,
                   norm, err, line, line_index, remaining, calls,
                   chordVars, scoreVars>>

\* The rewrite pass is over: transposed_text is handed to the render path
HandOver ==
    /\ pc = "rewrite" /\ lineno > Len(text)
    /\ pc' = "done"
    /\ UNCHANGED <<text, transpose, paragraphs, para_index, lineno, shift,
                   first_key, norm, transposed_text, err, line, line_index,
                   remaining, calls, chordVars, scoreVars>>

Next ==
    \/ CountLine
    \/ EstimateKeys
    \/ CalculateShift
    \/ RewriteLine
    \/ NextChordOfLine
    \/ TransposeStep
    \/ TransposeReturn
    \/ AppendLine
    \/ HandOver

Spec == Init /\ [][Next]_vars

\* The run is one sequential call: a step that can be taken is taken
FairSpec == Spec /\ WF_vars(Next)

(***************************************************************************)
(* Properties of the transposition run                                     *)
(***************************************************************************)
\* The paragraphs carry their key estimate (the scoring loop has run)
Scored == "val" \in DOMAIN paragraphs[1]

\* The shift calculation has run and raised nothing
ShiftKnown == Scored /\ pc \in {"rewrite", "chords", "transpose", "done", "error"}
                     /\ (pc = "error" => calls # {})

\* Paragraphs with nonzero confidence, and the first of them in document order
ConfidentParas == {i \in 1..Len(paragraphs) : paragraphs[i].val > 0}
FirstConfident == CHOOSE i \in ConfidentParas : \A j \in ConfidentParas : i <= j

\* The chords of the rewritten line `out` are those of `l` moved up s semitones
LineTransposedBy(l, out, s) ==
    LET a == Split(l)
        b == Split(out)
    IN  /\ Len(a) = Len(b)
        /\ \A j \in 1..(Len(a) \div 2) :
              LET ci == ChordInit(a[2 * j])
                  co == ChordInit(b[2 * j])
              IN  /\ ci.ok /\ co.ok
                  /\ InTable(co.root)
                  /\ chord_to_offset[co.root] = (chord_to_offset[ci.root] + s) % 12
                  /\ co.triad = ci.triad
                  /\ (ci.bass # <<>> /\ InTable(ci.bass)
                        => /\ InTable(co.bass)
                           /\ chord_to_offset[co.bass]
                                = (chord_to_offset[ci.bass] + s) % 12)

\* C1: with a target key of the table and a paragraph of nonzero confidence,
\* the shift is (offset of the target - key of the first such paragraph) mod 12
\* from the shift calculation on, every transpose call of the rewrite pass gets
\* that value, every rewritten line has its chords moved up by it, and a run
\* that completes has rewritten every line.
C1_SameShiftEverywhere ==
    (ShiftKnown /\ transpose \in DOMAIN chord_to_offset /\ ConfidentParas # {})
    => LET s == (chord_to_offset[transpose] - paragraphs[FirstConfident].key) % 12
       IN  /\ shift = s
           /\ calls \subseteq {s}
           /\ (pc = "transpose" => remaining \in 0..s)
           /\ \A i \in 1..Len(transposed_text) :
                 LineTransposedBy(text[i], transposed_text[i], s)
           /\ (pc = "done" => Len(transposed_text) = Len(text))

\* a completed run over two confident paragraphs with different keys
C1_Witness ==
    /\ pc = "done" /\ transpose \in DOMAIN chord_to_offset
    /\ \E i, j \in ConfidentParas : paragraphs[i].key # paragraphs[j].key
    /\ calls # {} /\ shift > 0

\* The key established before paragraph pi (1-based): the key of the nearest
\* earlier paragraph of nonzero confidence, else of the first such paragraph
EstablishedKey(pi) ==
    LET prior == {j \in ConfidentParas : j < pi}
    IN  IF prior # {}
        THEN paragraphs[CHOOSE j \in prior : \A k \in prior : k <= j].key
        ELSE paragraphs[FirstConfident].key

\* C6: when the rewrite pass starts a line of a paragraph that has nonzero
\* confidence and a key other than the established one, that key becomes the
\* active key and norm becomes key_norm[key]; a paragraph of zero confidence
\* leaves both as they are.
C6_KeyChangeAdopted ==
    [][(pc = "rewrite" /\ pc' = "chords")
        => LET p == paragraphs[para_index + 1]
           IN  /\ (p.val > 0 /\ p.key # EstablishedKey(para_index + 1)
                     => first_key' = {p.key} /\ norm' = key_norm[p.key + 1])
               /\ (p.val = 0 => first_key' = first_key /\ norm' = norm)]_vars

\* C7: a run whose target key is not a key of chord_to_offset never starts
\* rewriting a line and never completes.
C7_UnknownTargetFailsFast ==
    transpose \notin DOMAIN chord_to_offset
    => pc \notin {"chords", "transpose", "done"}

\* Some bracketed token of the document is rejected by Chord()
HasRejectedToken ==
    \E i \in 1..Len(text) :
        \E j \in 1..(Len(Split(text[i])) \div 2) : ~ChordInit(Split(text[i])[2 * j]).ok

\* C8: when some token of the document is rejected by Chord(), the run never
\* gets past the counting pass, appends nothing to transposed_text, and the
\* error it ends with is the ChordError.
C8_AbortsWithParseError ==
    HasRejectedToken
    => /\ pc \in {"count", "error"}
       /\ transposed_text = <<>>
       /\ (pc = "error" => err = "ChordError")

\* C9: every rewritten line splits into as many segments as its input line,
\* chords at the same places, with every text segment equal to the input's; a
\* line without chords is equal to the input line; a run that completes has
\* rewritten every line, in order.
C9_TextPreserved ==
    /\ (pc = "done" => Len(transposed_text) = Len(text))
    /\ \A i \in 1..Len(transposed_text) :
          LET a == Split(text[i])
              b == Split(transposed_text[i])
          IN  /\ Len(a) = Len(b)
              /\ \A j \in 1..Len(a) : j % 2 = 1 => a[j] = b[j]
              /\ (Len(a) = 1 => transposed_text[i] = text[i])

\* a completed run with a rewritten line that has text before and after its
\* chord, and a line without chords
C9_Witness ==
    /\ pc = "done"
    /\ \E i \in 1..Len(text) :
          /\ Len(Split(text[i])) = 3
          /\ Split(text[i])[1] # <<>> /\ Split(text[i])[3] # <<>>
          /\ transposed_text[i] # text[i]
    /\ \E i \in 1..Len(text) : Len(Split(text[i])) = 1

\* C10: every transpose call of the rewrite pass gets a value in 0..11 and its
\* countdown stays in that range; a paragraph with a chord has a confidence
\* above zero; and every run ends, completed or with an exception.
C10_ShiftInRangeAndTerminates ==
    /\ [](pc = "transpose" => remaining \in 0..11)
    /\ [](calls \subseteq 0..11)
    /\ [](Scored => \A i \in 1..Len(paragraphs) :
                       SumCounts(paragraphs[i].chord_count, 0) > 0
                       => paragraphs[i].val > 0)
    /\ <>(pc \in {"done", "error"})

\* a completed run that transposed chords and has a paragraph of zero confidence
C10_Witness ==
    /\ pc = "done" /\ calls # {} /\ shift \in 1..11
    /\ \E i \in 1..Len(paragraphs) : paragraphs[i].val = 0
====
